---------------------------- MODULE Spec2Model ----------------------------
(***************************************************************************)
(* Relief-rate tools of prfs / psv_tools: the memoized flash resolver      *)
(* flash_to_VF, the API 521 fire-case vaporization model                   *)
(* (api521_fire_wetted / fire_wetted), the heat-duty correlation           *)
(* fire_wetted_Q and the Darcy pressure drop darcy_dp.                     *)
(*                                                                         *)
(* Conventions of the model                                                *)
(*  - A pint Quantity is a record [mag, unit]; a bare Python number is a   *)
(*    record whose unit is "bare".                                         *)
(*  - Vapor fractions are counted in steps of 1/VFScale: magnitude k       *)
(*    stands for k/VFScale, so VFScale itself is the vapor fraction 1.0.   *)
(*  - Temperatures live on the grid 0..TMax; one grid step is the          *)
(*    root-finder's tolerance xtol.                                        *)
(*  - The flasher (thermo.flash.Flash) and scipy's root_scalar are         *)
(*    external; the flasher is an arbitrary VF(T) response chosen in Init, *)
(*    root_scalar is any bracketing iteration (brentq is one).             *)
(***************************************************************************)
EXTENDS Integers, Sequences, FiniteSets, TLC

VARIABLES pkg, flasher, cache, last

vars == <<pkg, flasher, cache, last>>

-----------------------------------------------------------------------------
(* Bounds *)

\* temperature grid 0..TMax
TMax == 2
\* vapor fractions are k/VFScale, k in 0..VFScale
VFScale == 3

TGrid == 0..TMax
VFVals == 0..VFScale
\* the value standing for a NaN vapor fraction reported by the flasher
NaN == -1

-----------------------------------------------------------------------------
(* Units: the part of pint's registry the calls use *)

\* units: Pa, kPa, ft2 (ft^2), yd2 (yd^2), lb, "" (dimensionless); "bare"
\* marks a number that is no Quantity
Dimension(u) ==
    CASE u \in {"Pa", "kPa"} -> "[pressure]"
      [] u \in {"ft2", "yd2"} -> "[area]"
      [] u = "lb" -> "[mass]"
      [] u \in {"", "bare"} -> "[]"

\* factor to the base unit of the dimension (Pa, ft2, dimensionless)
Factor(u) ==
    CASE u = "kPa" -> 1000
      [] u = "yd2" -> 9
      [] OTHER -> 1

Q_(m, u) == [mag |-> m, unit |-> u]

IsQuantity(q) == q.unit # "bare"

\* Quantity.check(dim), and ureg.check's test ureg.Quantity(value).check(dim),
\* which turns a bare number into a dimensionless quantity first
Check(q, dim) == Dimension(q.unit) = dim

\* ureg.wraps with strict=False: a bare number is taken as it is
WrapsError_notStrict(q, dim) ==
    IF ~IsQuantity(q) THEN "none"
    ELSE IF Dimension(q.unit) # dim THEN "DimensionalityError"
    ELSE "none"

\* ureg.wraps with strict=True: a bare number is a ValueError, a quantity of
\* another dimension a DimensionalityError, otherwise the magnitude in `unit`
WrapsError(q, dim) ==
    IF ~IsQuantity(q) THEN "ValueError"
    ELSE IF Dimension(q.unit) # dim THEN "DimensionalityError"
    ELSE "none"

ToBase(q) == q.mag * Factor(q.unit)

-----------------------------------------------------------------------------
(* The external flasher and its equilibrium states *)

NoState == [kind |-> "none", T |-> -1, P |-> -1, VF |-> -1]

\* the flasher's answer to flash(P=P, VF=VF, zs=zs), VF a phase boundary
FlashPVF(fl, P, VF) ==
    [kind |-> "PVF", T |-> IF VF = 0 THEN fl.Tl ELSE fl.Tv, P |-> P, VF |-> VF]

\* the flasher's answer to flash(T=T, P=P, zs=zs)
FlashTP(fl, T, P) == [kind |-> "TP", T |-> T, P |-> P, VF |-> fl.vf[T]]

\* the record of one call made to the flasher
CallPVF(P, VF) == [kind |-> "PVF", T |-> -1, P |-> P, VF |-> VF]
CallTP(T, P) == [kind |-> "TP", T |-> T, P |-> P, VF |-> -1]

\* A mixture: bubble point at the bottom of the grid, dew point at the top, the
\* (T, P) flash agreeing with the boundary flashes there and arbitrary (any
\* vapor fraction, or NaN) in between.
Mixtures ==
    { [Tl |-> 0, Tv |-> TMax, vf |-> f] :
        f \in { g \in [TGrid -> VFVals \cup {NaN}] :
                    g[0] = 0 /\ g[TMax] = VFScale } }

\* A pure component: bubble and dew temperature coincide and the vapor
\* fraction jumps from 0 to 1 there.
PureComponents ==
    { [Tl |-> 1, Tv |-> 1,
       vf |-> [T \in TGrid |-> IF T < 1 \/ (T = 1 /\ liq) THEN 0 ELSE VFScale]] :
        liq \in BOOLEAN }

Flashers == Mixtures \cup PureComponents

-----------------------------------------------------------------------------
(* scipy.optimize.root_scalar(check_T, bracket=[a, b]) *)

\* check_T without the target: the residual is the vapor fraction itself
check_T_noTarget(fl, T_val, P, VF) ==
    LET got == FlashTP(fl, T_val, P).VF
    IN  [nan |-> got = NaN, val |-> IF got = NaN THEN 0 ELSE got]

\* check_T: the residual flasher.flash(T=T_val, P=P, zs=zs).VF - VF
check_T(fl, T_val, P, VF) ==
    LET got == FlashTP(fl, T_val, P).VF
    IN  [nan |-> got = NaN, val |-> IF got = NaN THEN 0 ELSE got - VF]

Sign(x) == IF x < 0 THEN -1 ELSE IF x > 0 THEN 1 ELSE 0

\* what root_scalar hands back: a RootResults (its root, its converged flag)
\* or a raised ValueError; evals are the temperatures it evaluated check_T at
RootResults(root, converged, evals) ==
    [raised |-> "none", root |-> root, converged |-> converged, evals |-> evals]

RootRaised(evals) ==
    [raised |-> "ValueError", root |-> -1, converged |-> FALSE, evals |-> evals]

Abs(x) == IF x < 0 THEN -x ELSE x

\* The iteration of a bracketing solver on a bracket lo < hi whose residuals
\* flo, fhi differ in sign.  Within tolerance (one grid step) it has
\* converged and returns the end of the bracket with the smaller residual
\* (brentq keeps its current iterate the better of the two); otherwise it
\* evaluates a point strictly inside, stops there on a zero residual, gives
\* up there on a NaN residual (GiveUp), and else keeps the half across which
\* the sign still changes.
\* A search that cannot go on.  root_scalar runs brentq with disp=False, so a
\* search that ends without converging hands back a RootResults with
\* converged = False and raises nothing; scipy builds that guard the residual
\* raise ValueError on a NaN instead.  Both are outcomes of the call.
GiveUp(x, evals) == { RootResults(x, FALSE, evals), RootRaised(evals) }

RECURSIVE Iterate(_, _, _, _, _, _, _, _)
Iterate(fl, P, VF, lo, flo, hi, fhi, evals) ==
    IF hi - lo <= 1
    THEN { RootResults(r, TRUE, evals) :
             r \in {x \in {lo, hi} :
                      Abs(IF x = lo THEN flo ELSE fhi)
                          <= Abs(IF x = lo THEN fhi ELSE flo)} }
    ELSE UNION {
           LET f == check_T(fl, x, P, VF)
               ev == Append(evals, x)
           IN  IF f.nan THEN GiveUp(x, ev)
               ELSE IF f.val = 0 THEN { RootResults(x, TRUE, ev) }
               ELSE IF Sign(f.val) = Sign(flo)
                    THEN Iterate(fl, P, VF, x, f.val, hi, fhi, ev)
                    ELSE Iterate(fl, P, VF, lo, flo, x, f.val, ev)
           : x \in (lo + 1)..(hi - 1) }

\* brentq's start: both ends are evaluated; a zero residual at an end is the
\* root; residuals of one sign raise ValueError ("f(a) and f(b) must have
\* different signs"); a NaN residual ends the search (GiveUp).
root_scalar(fl, P, VF, a, b) ==
    LET fa == check_T(fl, a, P, VF)
        fb == check_T(fl, b, P, VF)
    IN  IF fa.nan THEN GiveUp(a, <<a>>)
        ELSE IF fb.nan THEN GiveUp(b, <<a, b>>)
        ELSE IF fa.val = 0 THEN { RootResults(a, TRUE, <<a, b>>) }
        ELSE IF fb.val = 0 THEN { RootResults(b, TRUE, <<a, b>>) }
        ELSE IF Sign(fa.val) = Sign(fb.val) THEN { RootRaised(<<a, b>>) }
        ELSE Iterate(fl, P, VF, a, fa.val, b, fb.val, <<a, b>>)

-----------------------------------------------------------------------------
(* flash_to_VF: ureg.wraps, functools.cache, then the function body *)

\* the pressures the client asks for, in Pa
Pressures == {1000}
Keys == Pressures \X VFVals

\* the outcome of one call: the cache afterwards, what was raised ("none" when
\* a state is returned), the state returned, whether the search that led to
\* it converged, and the calls made to the flasher, in order
Outcome(c, raised, state, converged, calls) ==
    [cache |-> c, raised |-> raised, state |-> state,
     converged |-> converged, calls |-> calls]

\* a cache that stores nothing
Store_forget(key, o) == o

\* a cache kept for the searched states only: the saturated states are
\* flashed anew by every search
Store_searchedOnly(key, o) ==
    IF o.raised = "none" /\ key[2] \notin {0, VFScale}
    THEN [o EXCEPT !.cache = [o.cache EXCEPT ![key] = o.state]]
    ELSE o

\* a cache that also keeps a mark for a call that raised
Store_alsoFailed(key, o) ==
    [o EXCEPT !.cache =
        [o.cache EXCEPT ![key] = IF o.raised = "none" THEN o.state
                                 ELSE [NoState EXCEPT !.kind = "failed"]]]

\* functools.cache stores the value a call returned and nothing for a call
\* that raised
Store(key, o) ==
    IF o.raised = "none"
    THEN [o EXCEPT !.cache = [o.cache EXCEPT ![key] = o.state]]
    ELSE o

MapSeq(s, Op(_)) == [i \in DOMAIN s |-> Op(s[i])]

\* The else branch of the body once both saturated states are in hand: the
\* bracketed search, then the (T, P) flash at whatever root it reports.  The
\* root is used without looking at RootResults.converged.
Search(fl, c, p, vf, sat_liquid, sat_vapor, pre) ==
    { LET calls == pre \o MapSeq(r.evals, LAMBDA T : CallTP(T, p))
      IN  IF r.raised # "none"
          THEN Outcome(c, r.raised, NoState, FALSE, calls)
          ELSE Outcome(c, "none", FlashTP(fl, r.root, p), r.converged,
                       Append(calls, CallTP(r.root, p)))
      : r \in root_scalar(fl, p, vf, sat_liquid.T, sat_vapor.T) }

\* the boundary reached by a (T, P) flash at the saturation temperature
BoundaryFlash_viaTP(fl, c, p, vf) ==
    LET T == IF vf = 0 THEN fl.Tl ELSE fl.Tv
    IN  Outcome(c, "none", FlashTP(fl, T, p), TRUE, <<CallTP(T, p)>>)

\* The branch VF == 0.0 or VF == 1.0: the flasher's boundary flash, as is
BoundaryFlash(fl, c, p, vf) ==
    Outcome(c, "none", FlashPVF(fl, p, vf), TRUE, <<CallPVF(p, vf)>>)

\* flash_to_VF(flasher, P, VF, zs) from cache c: the set of possible outcomes
RECURSIVE flash_to_VF(_, _, _, _)
flash_to_VF(fl, c, P, VF) ==
    IF WrapsError(P, "[pressure]") # "none"
    THEN { Outcome(c, WrapsError(P, "[pressure]"), NoState, FALSE, <<>>) }
    ELSE IF WrapsError(VF, "[]") # "none"
    THEN { Outcome(c, WrapsError(VF, "[]"), NoState, FALSE, <<>>) }
    ELSE
    LET p == ToBase(P)
        vf == ToBase(VF)
        key == <<p, vf>>
    IN  IF c[key] # NoState
        THEN { Outcome(c, "none", c[key], TRUE, <<>>) }
        ELSE IF vf = 0 \/ vf = VFScale
        THEN { Store(key, BoundaryFlash(fl, c, p, vf)) }
        ELSE UNION { UNION {
                 { Store(key, o) :
                     o \in Search(fl, sv.cache, p, vf, sl.state, sv.state,
                                  sl.calls \o sv.calls) }
                 : sv \in flash_to_VF(fl, sl.cache, Q_(p, "Pa"), Q_(VFScale, "")) }
                 : sl \in flash_to_VF(fl, c, Q_(p, "Pa"), Q_(0, "")) }

-----------------------------------------------------------------------------
(* Exact arithmetic: Python floats are modelled by rationals [num, den] *)

RECURSIVE GCD(_, _)
GCD(a, b) == IF b = 0 THEN a ELSE GCD(b, a % b)

\* the fraction n/d in lowest terms with a positive denominator (d # 0)
Rat(n, d) ==
    LET g == GCD(Abs(n), Abs(d))
        s == IF d < 0 THEN -1 ELSE 1
    IN  [num |-> s * (n \div g), den |-> s * (d \div g)]

Int2Rat(n) == [num |-> n, den |-> 1]

\* the value of an operation on a NaN operand
NaNRat == [num |-> 0, den |-> 0]
IsNaNRat(x) == x.den = 0

RAdd(x, y) ==
    IF IsNaNRat(x) \/ IsNaNRat(y) THEN NaNRat
    ELSE Rat(x.num * y.den + y.num * x.den, x.den * y.den)

RNeg(x) == [num |-> -x.num, den |-> x.den]

RSub(x, y) == RAdd(x, RNeg(y))

\* factors are cancelled crosswise before multiplying
RMul(x, y) ==
    IF IsNaNRat(x) \/ IsNaNRat(y) THEN NaNRat
    ELSE LET a == Rat(x.num, y.den)
             b == Rat(y.num, x.den)
         IN  Rat(a.num * b.num, a.den * b.den)

\* a division that never finds its divisor zero
RIsZero_never(x) == FALSE

RIsZero(x) == x.den # 0 /\ x.num = 0

\* x / y for y # 0 (a zero divisor raises ZeroDivisionError in the callers)
RDiv(x, y) ==
    IF IsNaNRat(x) \/ IsNaNRat(y) THEN NaNRat
    ELSE RMul(x, Rat(y.den, y.num))

-----------------------------------------------------------------------------
(* The heat duty Q = C * F * A^E *)

\* duty constants, BTU/hr/ft^2
C_adequate == 21000
C_inadequate == 34500

\* environment factors are counted in steps of 1/FScale
FScale == 4

\* A ** 0.82 for the area magnitudes the client passes, to one decimal
Pow082(a) ==
    CASE a = 500 -> Rat(1634, 10)
      [] a = 4500 -> Rat(9900, 10)

\* A ** E, E = 1.0 for an air cooler and 0.82 otherwise
PowE(a, air_cooler) == IF air_cooler THEN Int2Rat(a) ELSE Pow082(a)

\* the two duty constants taken the wrong way round
DutyConstant_swapped(adequate_drainage) ==
    IF adequate_drainage THEN C_inadequate ELSE C_adequate

DutyConstant(adequate_drainage) ==
    IF adequate_drainage THEN C_adequate ELSE C_inadequate

FValue(F) == Rat(ToBase(F), FScale)

\* fire_wetted_Q(A, adequate_drainage, F, air_cooler) of psv_tools: ureg.wraps
\* turns A into ft^2 and F into a plain number, then Q = C * F * A ** E
fire_wetted_Q(A, adequate_drainage, F, air_cooler) ==
    IF WrapsError(A, "[area]") # "none"
    THEN [raised |-> WrapsError(A, "[area]"), Q |-> NaNRat, C |-> 0]
    ELSE IF WrapsError(F, "[]") # "none"
    THEN [raised |-> WrapsError(F, "[]"), Q |-> NaNRat, C |-> 0]
    ELSE LET C == DutyConstant(adequate_drainage)
         IN  [raised |-> "none",
              Q |-> RMul(RMul(Int2Rat(C), FValue(F)),
                         PowE(ToBase(A), air_cooler)),
              C |-> C]

-----------------------------------------------------------------------------
(* The vaporization model: api521_fire_wetted (prfs), fire_wetted (psv_tools) *)

\* EquilibriumState.Cp() and .H(), J/mol/K and J/mol, of the external flasher
StateCp(st) == Int2Rat(30 + 2 * st.T)
StateH(st) == Int2Rat(100 * st.T + (IF st.VF = NaN THEN 0 ELSE 60 * st.VF))
StateT(st) == Int2Rat(st.T)
StateVF(st) == IF st.VF = NaN THEN NaNRat ELSE Rat(st.VF, VFScale)

NoResult == [Q |-> NaNRat, C |-> 0]

\* the range test with < for <=: equal vapor fractions pass
Validate_prfs_strict(P, initial_VF, final_VF, A, F) ==
    IF \/ ~Check(P, "[pressure]") \/ ~Check(initial_VF, "[]")
       \/ ~Check(final_VF, "[]") \/ ~Check(A, "[area]") \/ ~Check(F, "[]")
    THEN "DimensionalityError"
    ELSE IF ToBase(final_VF) < ToBase(initial_VF) THEN "ValueError"
    ELSE "none"

\* prfs: the decorator ureg.check(None, '[pressure]', None, '[]', '[]',
\* '[area]', None, '[]', None), then the test final_VF <= initial_VF
Validate_prfs(P, initial_VF, final_VF, A, F) ==
    IF \/ ~Check(P, "[pressure]") \/ ~Check(initial_VF, "[]")
       \/ ~Check(final_VF, "[]") \/ ~Check(A, "[area]") \/ ~Check(F, "[]")
    THEN "DimensionalityError"
    ELSE IF ToBase(final_VF) <= ToBase(initial_VF) THEN "ValueError"
    ELSE "none"

\* psv_tools: assert P.check('[pressure]') and initial_VF.check('[]') and
\* final_VF.check('[]') and A.check('[area]') and final_VF > initial_VF;
\* a bare number has no .check
RECURSIVE AssertChecks(_)
AssertChecks(pairs) ==
    IF pairs = <<>> THEN "none"
    ELSE IF ~IsQuantity(pairs[1][1]) THEN "AttributeError"
    ELSE IF ~Check(pairs[1][1], pairs[1][2]) THEN "AssertionError"
    ELSE AssertChecks(Tail(pairs))

\* the assertion without A.check('[area]')
Validate_psv_noArea(P, initial_VF, final_VF, A, F) ==
    LET dims == AssertChecks(<< <<P, "[pressure]">>, <<initial_VF, "[]">>,
                                <<final_VF, "[]">> >>)
    IN  IF dims # "none" THEN dims
        ELSE IF ~(ToBase(final_VF) > ToBase(initial_VF)) THEN "AssertionError"
        ELSE "none"

Validate_psv(P, initial_VF, final_VF, A, F) ==
    LET dims == AssertChecks(<< <<P, "[pressure]">>, <<initial_VF, "[]">>,
                                <<final_VF, "[]">>, <<A, "[area]">> >>)
    IN  IF dims # "none" THEN dims
        ELSE IF ~(ToBase(final_VF) > ToBase(initial_VF)) THEN "AssertionError"
        ELSE "none"

Validate(pk, P, initial_VF, final_VF, A, F) ==
    IF pk = "prfs" THEN Validate_prfs(P, initial_VF, final_VF, A, F)
    ELSE Validate_psv(P, initial_VF, final_VF, A, F)

\* Q = C * F * Q_((A ** E).magnitude, 'ft^2'): the magnitude of A in the unit
\* it came in
FireDuty(A, adequate_drainage, F, air_cooler) ==
    RMul(RMul(Int2Rat(DutyConstant(adequate_drainage)), Rat(F.mag, FScale)),
         PowE(A.mag, air_cooler))

\* the energy balance that takes the whole enthalpy change as latent heat
EnergyBalance_noSensible(Q, C, initial_state, final_state) ==
    LET avg_Cp == RDiv(RAdd(StateCp(initial_state), StateCp(final_state)),
                       Int2Rat(2))
        initial_T == StateT(initial_state)
        final_T == StateT(final_state)
        interval_total_dH == RSub(StateH(final_state), StateH(initial_state))
        interval_specific_dH == RMul(avg_Cp, RSub(final_T, initial_T))
        interval_latent_dH == interval_total_dH
        dVF == RSub(StateVF(final_state), StateVF(initial_state))
        latent_dH_per_vapor == RDiv(interval_latent_dH, dVF)
    IN  IF RIsZero(dVF) \/ RIsZero(latent_dH_per_vapor)
        THEN [raised |-> "ZeroDivisionError", result |-> NoResult]
        ELSE [raised |-> "none",
              result |->
                [Q |-> Q, C |-> C, n |-> RDiv(Q, latent_dH_per_vapor),
                 avg_Cp |-> avg_Cp, initial_T |-> initial_T,
                 final_T |-> final_T,
                 interval_total_dH |-> interval_total_dH,
                 interval_specific_dH |-> interval_specific_dH,
                 interval_latent_dH |-> interval_latent_dH,
                 latent_dH_per_vapor |-> latent_dH_per_vapor]]

\* the energy balance over the two resolved states
EnergyBalance(Q, C, initial_state, final_state) ==
    LET avg_Cp == RDiv(RAdd(StateCp(initial_state), StateCp(final_state)),
                       Int2Rat(2))
        initial_T == StateT(initial_state)
        final_T == StateT(final_state)
        interval_total_dH == RSub(StateH(final_state), StateH(initial_state))
        interval_specific_dH == RMul(avg_Cp, RSub(final_T, initial_T))
        interval_latent_dH == RSub(interval_total_dH, interval_specific_dH)
        dVF == RSub(StateVF(final_state), StateVF(initial_state))
        latent_dH_per_vapor == RDiv(interval_latent_dH, dVF)
    IN  IF RIsZero(dVF) \/ RIsZero(latent_dH_per_vapor)
        THEN [raised |-> "ZeroDivisionError", result |-> NoResult]
        ELSE [raised |-> "none",
              result |->
                [Q |-> Q, C |-> C, n |-> RDiv(Q, latent_dH_per_vapor),
                 avg_Cp |-> avg_Cp, initial_T |-> initial_T,
                 final_T |-> final_T,
                 interval_total_dH |-> interval_total_dH,
                 interval_specific_dH |-> interval_specific_dH,
                 interval_latent_dH |-> interval_latent_dH,
                 latent_dH_per_vapor |-> latent_dH_per_vapor]]

FireOutcome(c, raised, result, calls) ==
    [cache |-> c, raised |-> raised, result |-> result, calls |-> calls]

\* the body after validation: the duty, the two resolutions, the balance
FireBody(fl, c, P, initial_VF, final_VF, A, adequate_drainage, F, air_cooler) ==
    LET C == DutyConstant(adequate_drainage)
        Q == FireDuty(A, adequate_drainage, F, air_cooler)
    IN  UNION {
          IF i.raised # "none"
          THEN { FireOutcome(i.cache, i.raised, NoResult, i.calls) }
          ELSE { IF f.raised # "none"
                 THEN FireOutcome(f.cache, f.raised, NoResult,
                                  i.calls \o f.calls)
                 ELSE LET e == EnergyBalance(Q, C, i.state, f.state)
                      IN  FireOutcome(f.cache, e.raised, e.result,
                                      i.calls \o f.calls)
                 : f \in flash_to_VF(fl, i.cache, P, final_VF) }
          : i \in flash_to_VF(fl, c, P, initial_VF) }

\* api521_fire_wetted / fire_wetted from cache c: the set of possible outcomes
fire_wetted(pk, fl, c, P, initial_VF, final_VF, A, adequate_drainage, F, air_cooler) ==
    LET v == Validate(pk, P, initial_VF, final_VF, A, F)
    IN  IF v # "none" THEN { FireOutcome(c, v, NoResult, <<>>) }
        ELSE FireBody(fl, c, P, initial_VF, final_VF, A, adequate_drainage,
                      F, air_cooler)

-----------------------------------------------------------------------------
(* psv_tools.pipeflow: quantities with their dimension, and darcy_dp *)

\* A quantity in coherent units: the number val * pi^pi (val a rational) and
\* the exponents dim = <<mass, length, time>>; None is Python's None.
PQ(val, piExp, dim) == [none |-> FALSE, val |-> val, pi |-> piExp, dim |-> dim]
None == [none |-> TRUE, val |-> NaNRat, pi |-> 0, dim |-> <<0, 0, 0>>]

Dimensionless == <<0, 0, 0>>
Length == <<0, 1, 0>>
MassDensity == <<1, -3, 0>>
Velocity == <<0, 1, -1>>
VolumetricFlow == <<0, 3, -1>>
MassFlow == <<1, 0, -1>>
Pressure == <<1, -1, -2>>

PQMul(x, y) ==
    PQ(RMul(x.val, y.val), x.pi + y.pi, [i \in 1..3 |-> x.dim[i] + y.dim[i]])

\* x / y for y # 0
PQDiv(x, y) ==
    PQ(RDiv(x.val, y.val), x.pi - y.pi, [i \in 1..3 |-> x.dim[i] - y.dim[i]])

PQIsZero(x) == RIsZero(x.val)

\* pi / 4 * D**2
FlowArea(D) == PQMul(PQ(Rat(1, 4), 1, Dimensionless), PQMul(D, D))

OverspecifiedMsg ==
    "Flow arguments are overspecified. Function requires exactly one of the following: 1) v (velocity), 2) Q (volumetric flow) or 3) m (mass flow)"

UnderspecifiedMsg ==
    "Flow arguments are underspecified. Function requires exactly one of the following: 1) v (velocity), 2) Q (volumetric flow) or 3) m (mass flow)"

DarcyRaised(e) == [raised |-> e, dp |-> None]

\* ureg.check('[]', '[length]', '[length]', '[mass]*[length]**-3', None, None,
\* None): v, Q and m are not checked
DarcyCheck(f, L, D, rho, v, Q, m) ==
    /\ f.dim = Dimensionless
    /\ L.dim = Length
    /\ D.dim = Length
    /\ rho.dim = MassDensity

\* v = Q / (pi / 4 * D**2)
VelocityFromQ(Q, D) == PQDiv(Q, FlowArea(D))

\* the mass flow divided by the area alone, the density forgotten
VelocityFromM_noRho(m, rho, D) == PQDiv(m, FlowArea(D))

\* v = (m / rho) / (pi / 4 * D**2)
VelocityFromM(m, rho, D) == PQDiv(PQDiv(m, rho), FlowArea(D))

\* f * rho * L * v * v / 2 / D
DarcyFormula(f, L, D, rho, v) ==
    PQDiv(PQDiv(PQMul(PQMul(PQMul(PQMul(f, rho), L), v), v),
                PQ(Int2Rat(2), 0, Dimensionless)),
          D)

NumFlowSpecs(v, Q, m) ==
    (IF v.none THEN 0 ELSE 1) + (IF Q.none THEN 0 ELSE 1)
        + (IF m.none THEN 0 ELSE 1)

\* darcy_dp(f, L, D, rho, v, Q, m): the statements in the order of the code.
\* The conversions of Q and m run before the count of specifiers is tested.
darcy_dp(f, L, D, rho, v, Q, m) ==
    IF ~DarcyCheck(f, L, D, rho, v, Q, m)
    THEN DarcyRaised("DimensionalityError")
    ELSE IF ~Q.none /\ PQIsZero(FlowArea(D))
    THEN DarcyRaised("ZeroDivisionError")
    ELSE IF ~m.none /\ (PQIsZero(rho) \/ PQIsZero(FlowArea(D)))
    THEN DarcyRaised("ZeroDivisionError")
    ELSE
    LET v1 == IF ~Q.none THEN VelocityFromQ(Q, D) ELSE v
        v2 == IF ~m.none THEN VelocityFromM(m, rho, D) ELSE v1
        num_flow_specs == NumFlowSpecs(v, Q, m)
    IN  IF num_flow_specs > 1 THEN DarcyRaised(OverspecifiedMsg)
        ELSE IF num_flow_specs < 1 THEN DarcyRaised(UnderspecifiedMsg)
        ELSE IF PQIsZero(D) THEN DarcyRaised("ZeroDivisionError")
        ELSE [raised |-> "none", dp |-> DarcyFormula(f, L, D, rho, v2)]

-----------------------------------------------------------------------------
(* prfs.pipeflow: calculate_velocity *)

\* a plain number, no Quantity: it has no dimension vector and no .check
BareNumber(val) == [none |-> FALSE, val |-> val, pi |-> 0, dim |-> <<>>]

IsBare(q) == ~q.none /\ q.dim = <<>>

VelocityRaised(e) == [raised |-> e, v |-> None]

\* any quantity passed as rho_mass counts as a density
DensityGiven_anyQuantity(rho_mass) == ~rho_mass.none

\* rho_mass is not None and rho_mass.check('[mass]/[volume]')
DensityGiven(rho_mass) == ~rho_mass.none /\ rho_mass.dim = MassDensity

\* calculate_velocity(flow, D, rho_mass): ureg.check(None, '[length]', None)
\* tests D alone (a plain number is dimensionless to it), then the body
\* dispatches on flow.check(...); None and plain numbers have no .check, and
\* the divisions raise ZeroDivisionError on a zero divisor.
calculate_velocity(flow, D, rho_mass) ==
    IF D.none \/ D.dim # Length THEN VelocityRaised("DimensionalityError")
    ELSE IF flow.none \/ IsBare(flow) THEN VelocityRaised("AttributeError")
    ELSE IF flow.dim = Velocity THEN [raised |-> "none", v |-> flow]
    ELSE IF flow.dim = VolumetricFlow
    THEN IF PQIsZero(FlowArea(D)) THEN VelocityRaised("ZeroDivisionError")
         ELSE [raised |-> "none", v |-> PQDiv(flow, FlowArea(D))]
    ELSE IF flow.dim = MassFlow
    THEN IF IsBare(rho_mass) THEN VelocityRaised("AttributeError")
         ELSE IF DensityGiven(rho_mass)
         THEN IF PQIsZero(rho_mass) \/ PQIsZero(FlowArea(D))
              THEN VelocityRaised("ZeroDivisionError")
              ELSE [raised |-> "none",
                    v |-> PQDiv(PQDiv(flow, rho_mass), FlowArea(D))]
         ELSE VelocityRaised("ValueError")
    ELSE VelocityRaised("ValueError")

-----------------------------------------------------------------------------
(* The client: which package it imported, and the calls it makes *)

Packages == {"prfs", "psv_tools"}

PressureArgs == {Q_(1000, "Pa"), Q_(1, "kPa"), Q_(1000, "lb")}

VFArgs == {Q_(k, "") : k \in VFVals} \cup {Q_(1, "Pa"), Q_(0, "bare")}

NoCall == [op |-> "none"]

EmptyCache == [k \in Keys |-> NoState]

Init ==
    /\ pkg \in Packages
    /\ flasher \in Flashers
    /\ cache = EmptyCache
    /\ last = NoCall

\* a call flash_to_VF(flasher, P, VF, zs) by the client
CallFlashToVF ==
    /\ last = NoCall
    /\ \E P \in PressureArgs, VF \in VFArgs :
        \E o \in flash_to_VF(flasher, cache, P, VF) :
            /\ cache' = o.cache
            /\ last' = [op |-> "flash_to_VF", P |-> P, VF |-> VF,
                        raised |-> o.raised, state |-> o.state,
                        converged |-> o.converged, calls |-> o.calls]
            /\ UNCHANGED <<pkg, flasher>>

AreaArgs == {Q_(500, "ft2"), Q_(500, "yd2"), Q_(500, "lb"), Q_(500, "bare")}

FArgs == {Q_(FScale, ""), Q_(FScale - 1, ""), Q_(FScale, "Pa")}

FireArgsOf(P, initial_VF, final_VF, A, adequate_drainage, F, air_cooler) ==
    [P |-> P, initial_VF |-> initial_VF, final_VF |-> final_VF, A |-> A,
     adequate_drainage |-> adequate_drainage, F |-> F,
     air_cooler |-> air_cooler]

\* The calls of the vaporization model the client makes: every duty input
\* with the flash inputs of a full vaporization, and every pressure and every
\* pair of vapor fractions with the duty inputs of an uninsulated vessel (the
\* duty and the resolutions do not read each other's inputs).
FireArgs ==
    { FireArgsOf(Q_(1, "kPa"), Q_(0, ""), Q_(VFScale, ""), A, ad, F, air) :
        A \in AreaArgs, ad \in BOOLEAN, F \in FArgs, air \in BOOLEAN }
    \cup
    { FireArgsOf(P, Q_(0, ""), Q_(VFScale, ""), Q_(500, "ft2"), FALSE,
                 Q_(FScale, ""), FALSE) : P \in PressureArgs }
    \cup
    { FireArgsOf(Q_(1, "kPa"), i, f, Q_(500, "ft2"), FALSE, Q_(FScale, ""),
                 FALSE) : i \in VFArgs, f \in VFArgs }

\* a call api521_fire_wetted(...) (prfs) or fire_wetted(...) (psv_tools)
CallFireWetted ==
    /\ last = NoCall
    /\ \E a \in FireArgs :
        \E o \in fire_wetted(pkg, flasher, cache, a.P, a.initial_VF,
                              a.final_VF, a.A, a.adequate_drainage, a.F,
                              a.air_cooler) :
            /\ cache' = o.cache
            /\ last' = [op |-> "fire_wetted", args |-> a,
                        raised |-> o.raised, result |-> o.result,
                        calls |-> o.calls]
            /\ UNCHANGED <<pkg, flasher>>

\* a call fire_wetted_Q(A, adequate_drainage, F, air_cooler) (psv_tools)
CallFireWettedQ ==
    /\ last = NoCall
    /\ pkg = "psv_tools"
    /\ \E A \in AreaArgs, ad \in BOOLEAN, F \in FArgs \cup {Q_(FScale, "bare")},
          air \in BOOLEAN :
        LET o == fire_wetted_Q(A, ad, F, air)
        IN  last' = [op |-> "fire_wetted_Q", A |-> A, adequate_drainage |-> ad,
                     F |-> F, air_cooler |-> air, raised |-> o.raised,
                     Q |-> o.Q, C |-> o.C]
    /\ UNCHANGED <<pkg, flasher, cache>>

\* the arguments of darcy_dp the client passes: numbers 0, 1, 2, ... in
\* coherent units, each argument also with a dimension it should not have
MaxMag == 2

FrictionArgs == {PQ(Int2Rat(1), 0, Dimensionless), PQ(Int2Rat(1), 0, Length)}
LengthArgs == {PQ(Int2Rat(2), 0, Length), PQ(Int2Rat(2), 0, Velocity)}
DiameterArgs ==
    {PQ(Int2Rat(k), 0, Length) : k \in 0..MaxMag} \cup {PQ(Int2Rat(1), 0, Pressure)}
DensityArgs ==
    {PQ(Int2Rat(k), 0, MassDensity) : k \in 0..MaxMag}
        \cup {PQ(Int2Rat(1), 0, MassFlow)}
VelocityArgs ==
    {None} \cup {PQ(Int2Rat(k), 0, Velocity) : k \in 1..MaxMag}
        \cup {PQ(Int2Rat(1), 0, MassFlow)}
VolFlowArgs ==
    {None, PQ(Int2Rat(1), 1, VolumetricFlow), PQ(Int2Rat(1), 0, Velocity)}
MassFlowArgs ==
    {None, PQ(Int2Rat(1), 1, MassFlow), PQ(Int2Rat(1), 0, Pressure)}

\* a call darcy_dp(f, L, D, rho, v, Q, m) (psv_tools)
CallDarcyDp ==
    /\ last = NoCall
    /\ pkg = "psv_tools"
    /\ \E f \in FrictionArgs, L \in LengthArgs, D \in DiameterArgs,
          rho \in DensityArgs, v \in VelocityArgs, Q \in VolFlowArgs,
          m \in MassFlowArgs :
        LET o == darcy_dp(f, L, D, rho, v, Q, m)
        IN  last' = [op |-> "darcy_dp", f |-> f, L |-> L, D |-> D, rho |-> rho,
                     v |-> v, Q |-> Q, m |-> m, raised |-> o.raised,
                     dp |-> o.dp]
    /\ UNCHANGED <<pkg, flasher, cache>>

\* the arguments of calculate_velocity the client passes
FlowArgs ==
    {None, BareNumber(Int2Rat(1)), PQ(Int2Rat(1), 0, Pressure),
     PQ(Int2Rat(1), 0, Dimensionless), PQ(Int2Rat(1), 1, VolumetricFlow),
     PQ(Int2Rat(1), 1, MassFlow)}
        \cup {PQ(Int2Rat(k), 0, Velocity) : k \in 0..MaxMag}

FlowDiameterArgs == DiameterArgs \cup {BareNumber(Int2Rat(1))}

FlowDensityArgs == DensityArgs \cup {None, BareNumber(Int2Rat(1))}

\* a call calculate_velocity(flow, D, rho_mass) (prfs)
CallCalculateVelocity ==
    /\ last = NoCall
    /\ pkg = "prfs"
    /\ \E flow \in FlowArgs, D \in FlowDiameterArgs,
          rho_mass \in FlowDensityArgs :
        LET o == calculate_velocity(flow, D, rho_mass)
        IN  last' = [op |-> "calculate_velocity", flow |-> flow, D |-> D,
                     rho_mass |-> rho_mass, raised |-> o.raised, v |-> o.v]
    /\ UNCHANGED <<pkg, flasher, cache>>

-----------------------------------------------------------------------------
(* Specifications *)

\* the client has taken the outcome of its call and is free to call again
Return ==
    /\ last # NoCall
    /\ last' = NoCall
    /\ UNCHANGED <<pkg, flasher, cache>>

\* the vaporization model and the resolver, either package
NextFire == CallFireWetted \/ CallFlashToVF \/ Return

SpecFire == Init /\ [][NextFire]_vars

\* fire_wetted_Q and darcy_dp never reach the flasher: one flasher will do
InitTools == Init /\ pkg = "psv_tools" /\ flasher \in PureComponents

NextTools == CallFireWettedQ \/ CallDarcyDp \/ Return

SpecTools == InitTools /\ [][NextTools]_vars

\* flash_to_VF is the same text in prfs/util.py and psv_tools/api521.py: the
\* runs of one package stand for both
InitFlash == Init /\ pkg = "prfs"

NextFlash == CallFlashToVF \/ Return

SpecFlash == InitFlash /\ [][NextFlash]_vars

\* calculate_velocity reads no flasher: one stands for all
InitVelocity == Init /\ pkg = "prfs" /\ flasher \in PureComponents

NextVelocity == CallCalculateVelocity \/ Return

SpecVelocity == InitVelocity /\ [][NextVelocity]_vars

-----------------------------------------------------------------------------
(* Properties of flash_to_VF *)

\* a record of a flash_to_VF call whose P and VF passed ureg.wraps
FlashCall(l) ==
    /\ l.op = "flash_to_VF"
    /\ WrapsError(l.P, "[pressure]") = "none"
    /\ WrapsError(l.VF, "[]") = "none"

KeyOf(l) == <<ToBase(l.P), ToBase(l.VF)>>

AtBoundary(l) == ToBase(l.VF) \in {0, VFScale}

\* C1: a call for VF = 0 or VF = 1 on a key that is not cached makes exactly
\* one call to the flasher, the boundary flash flash(P, VF, zs), and returns
\* that call's state: no (T, P) flash, no root-finding.
C1_BoundaryIsDirectFlash ==
    [][ (FlashCall(last') /\ AtBoundary(last') /\ cache[KeyOf(last')] = NoState)
        => /\ last'.raised = "none"
           /\ last'.calls = <<CallPVF(ToBase(last'.P), ToBase(last'.VF))>>
           /\ last'.state = FlashPVF(flasher, ToBase(last'.P), ToBase(last'.VF))
      ]_vars

C1_Witness ==
    /\ FlashCall(last) /\ AtBoundary(last)
    /\ Len(last.calls) = 1 /\ last.calls[1].kind = "PVF"
    /\ last.state.kind = "PVF"

\* C2: a call whose key is cached makes no call to the flasher, returns the
\* cached state and leaves the cache alone; a call that returns a state leaves
\* that state cached under its key; no entry is ever dropped or replaced.
C2_Memoized ==
    [][ /\ \A k \in Keys : cache[k] # NoState => cache'[k] = cache[k]
        /\ FlashCall(last') /\ cache[KeyOf(last')] # NoState
             => /\ last'.calls = <<>>
                /\ last'.raised = "none"
                /\ last'.state = cache[KeyOf(last')]
                /\ cache' = cache
        /\ FlashCall(last') /\ last'.raised = "none"
             => cache'[KeyOf(last')] = last'.state
      ]_vars

\* a repeated call served from the cache after other keys were resolved
C2_Witness ==
    /\ FlashCall(last) /\ last.calls = <<>> /\ last.raised = "none"
    /\ Cardinality({k \in Keys : cache[k] # NoState}) = VFScale + 1

\* the vapor fraction of the (T, P) flash rises (weakly) from 0 at the
\* saturated-liquid temperature to 1 at the saturated-vapor temperature
Monotone(fl) ==
    /\ fl.vf[fl.Tl] = 0 /\ fl.vf[fl.Tv] = VFScale
    /\ \A T1, T2 \in fl.Tl..fl.Tv :
          T1 <= T2 => fl.vf[T1] # NaN /\ fl.vf[T1] <= fl.vf[T2]

\* the requested vapor fraction is met at T, or crossed within one grid step
\* (the root-finder's tolerance) of T
WithinTolerance(fl, T, vf) ==
    \/ fl.vf[T] = vf
    \/ \E T2 \in {T - 1, T + 1} \cap (fl.Tl..fl.Tv) :
          /\ fl.vf[T2] # NaN
          /\ \/ fl.vf[T] < vf /\ vf < fl.vf[T2]
             \/ fl.vf[T2] < vf /\ vf < fl.vf[T]

\* C3: with a monotone flasher, a call for a VF strictly between 0 and 1
\* returns a (T, P) flash at a temperature inside
\* [T_sat_liquid, T_sat_vapor] whose vapor fraction is the requested one
\* within the root-finder's tolerance.
C3_IntermediateWithinTolerance ==
    (FlashCall(last) /\ ~AtBoundary(last) /\ Monotone(flasher))
    => /\ last.raised = "none"
       /\ last.state.kind = "TP"
       /\ last.state.P = ToBase(last.P)
       /\ last.state.T \in flasher.Tl..flasher.Tv
       /\ last.state.VF = flasher.vf[last.state.T]
       /\ WithinTolerance(flasher, last.state.T, ToBase(last.VF))

\* a search that took an iteration inside the bracket and stopped next to,
\* not on, the requested vapor fraction
C3_Witness ==
    /\ FlashCall(last) /\ ~AtBoundary(last) /\ Monotone(flasher)
    /\ last.raised = "none"
    /\ Len(last.calls) > 5
    /\ last.state.VF # ToBase(last.VF)

\* C8 (as claimed): a call never returns a state taken from a search that
\* did not converge.
C8_NeverReturnsUnconverged ==
    (FlashCall(last) /\ last.raised = "none") => last.converged

\* C17: a call for an intermediate VF that fails leaves no entry under its
\* key and every earlier entry as it was, leaves the two boundary states at P
\* cached, and an identical call made next searches again: it calls the
\* flasher, with (T, P) flashes only.
C17_FailureNotMemoized ==
    [][ (FlashCall(last') /\ ~AtBoundary(last') /\ last'.raised # "none")
        => /\ cache'[KeyOf(last')] = NoState
           /\ \A k \in Keys : cache[k] # NoState => cache'[k] = cache[k]
           /\ cache'[<<ToBase(last'.P), 0>>] # NoState
           /\ cache'[<<ToBase(last'.P), VFScale>>] # NoState
           /\ \A o \in flash_to_VF(flasher, cache', last'.P, last'.VF) :
                /\ Len(o.calls) >= 2
                /\ \A j \in DOMAIN o.calls : o.calls[j].kind = "TP"
      ]_vars

\* a failed search, made with the boundary states and another searched state
\* already cached
C17_Witness ==
    /\ FlashCall(last) /\ ~AtBoundary(last)
    /\ last.raised = "ValueError"
    /\ cache[KeyOf(last)] = NoState
    /\ Cardinality({k \in Keys : cache[k] # NoState}) = 3
    /\ Len(last.calls) >= 2
    /\ \A j \in DOMAIN last.calls : last.calls[j].kind = "TP"

-----------------------------------------------------------------------------
(* Properties of the vaporization model *)

FireCall(l) == l.op = "fire_wetted"

\* every dimension-checked argument is a quantity of its dimension
WellTyped(a) ==
    /\ IsQuantity(a.P) /\ Check(a.P, "[pressure]")
    /\ IsQuantity(a.initial_VF) /\ Check(a.initial_VF, "[]")
    /\ IsQuantity(a.final_VF) /\ Check(a.final_VF, "[]")
    /\ IsQuantity(a.A) /\ Check(a.A, "[area]")
    /\ IsQuantity(a.F) /\ Check(a.F, "[]")

\* ValueError in prfs, the failed assertion in psv_tools
RangeError == IF pkg = "prfs" THEN "ValueError" ELSE "AssertionError"

\* C4: a call with final_VF <= initial_VF (equal values included) raises the
\* range-validation error before any flash: no call reaches the flasher and
\* the cache is as it was.
C4_RangeErrorBeforeFlash ==
    [][ (/\ FireCall(last') /\ WellTyped(last'.args)
         /\ ToBase(last'.args.final_VF) <= ToBase(last'.args.initial_VF))
        => /\ last'.raised = RangeError
           /\ last'.calls = <<>>
           /\ cache' = cache
      ]_vars

\* equal vapor fractions rejected while the cache holds states
C4_Witness ==
    /\ FireCall(last) /\ WellTyped(last.args)
    /\ ToBase(last.args.final_VF) = ToBase(last.args.initial_VF)
    /\ last.raised = RangeError
    /\ \E k \in Keys : cache[k] # NoState

\* C9: a call whose P is no pressure, whose A is no area or whose initial_VF
\* or final_VF is not dimensionless is rejected before any flash or
\* root-finding: no call reaches the flasher and the cache is as it was.
C9_DimensionErrorBeforeFlash ==
    [][ (/\ FireCall(last')
         /\ \/ ~Check(last'.args.P, "[pressure]")
            \/ ~Check(last'.args.A, "[area]")
            \/ ~Check(last'.args.initial_VF, "[]")
            \/ ~Check(last'.args.final_VF, "[]"))
        => /\ last'.raised # "none"
           /\ last'.calls = <<>>
           /\ cache' = cache
      ]_vars

\* a mass passed as the area, everything else in order
C9_Witness ==
    /\ FireCall(last)
    /\ last.args.A = Q_(500, "lb")
    /\ Check(last.args.P, "[pressure]")
    /\ ToBase(last.args.final_VF) > ToBase(last.args.initial_VF)
    /\ last.raised \in {"DimensionalityError", "AssertionError"}
    /\ last.calls = <<>>

\* the states the two resolutions of a call returned: a state a resolution
\* returns is the one functools.cache holds under its key from then on
InitialState(l) == cache[<<ToBase(l.args.P), ToBase(l.args.initial_VF)>>]
FinalState(l) == cache[<<ToBase(l.args.P), ToBase(l.args.final_VF)>>]

C12_EqualStateVFDividesByZero ==
    (/\ FireCall(last) /\ WellTyped(last.args)
     /\ ToBase(last.args.final_VF) > ToBase(last.args.initial_VF)
     /\ InitialState(last) # NoState /\ FinalState(last) # NoState
     /\ InitialState(last).VF # NaN
     /\ InitialState(last).VF = FinalState(last).VF)
    => /\ last.raised = "ZeroDivisionError"
       /\ last.result = NoResult

\* two searches for different vapor fractions that ended on states of one
\* vapor fraction
C12_Witness ==
    /\ FireCall(last) /\ WellTyped(last.args)
    /\ ToBase(last.args.final_VF) > ToBase(last.args.initial_VF)
    /\ InitialState(last) # NoState /\ FinalState(last) # NoState
    /\ InitialState(last).VF # NaN
    /\ InitialState(last).VF = FinalState(last).VF
    /\ last.raised = "ZeroDivisionError"
    /\ Len(last.calls) > 0

\* the places in calls of the boundary flash flash(P = p, VF = b)
BoundaryFlashes(calls, p, b) ==
    {j \in DOMAIN calls :
       calls[j].kind = "PVF" /\ calls[j].P = p /\ calls[j].VF = b}

\* C14: in every call of flash_to_VF or of the vaporization model, the
\* boundary flash for VF = 0 and the one for VF = 1 at P is issued at most
\* once, and not at all when its state is cached; an issued boundary flash
\* leaves its state cached and no entry is ever dropped, so over any sequence
\* of calls each is issued at most once, and a query that finds both cached
\* issues (T, P) flashes only.
C14_BoundaryFlashedOnce ==
    [][ last'.op \in {"flash_to_VF", "fire_wetted"}
        => /\ \A k \in Keys : cache[k] # NoState => cache'[k] = cache[k]
           /\ \A p \in Pressures, b \in {0, VFScale} :
                LET n == Cardinality(BoundaryFlashes(last'.calls, p, b))
                IN  /\ n <= (IF cache[<<p, b>>] # NoState THEN 0 ELSE 1)
                    /\ n = 1 => cache'[<<p, b>>] # NoState
           /\ \A j \in DOMAIN last'.calls :
                last'.calls[j].kind = "PVF"
                    => last'.calls[j].VF \in {0, VFScale}
      ]_vars

\* a vaporization-model call between two intermediate vapor fractions whose
\* two searches flash at (T, P) only: both saturated states came from the
\* cache
C14_Witness ==
    /\ FireCall(last)
    /\ ToBase(last.args.initial_VF) \notin {0, VFScale}
    /\ ToBase(last.args.final_VF) \notin {0, VFScale}
    /\ Len(last.calls) > 6
    /\ \A j \in DOMAIN last.calls : last.calls[j].kind = "TP"

\* C16 (as claimed): the duty Q in the record of the vaporization model is
\* the Q that fire_wetted_Q returns for the same A, adequate_drainage, F and
\* air_cooler, C * F * (A in ft2)^E, whatever unit A is given in.
C16_DutyIndependentOfAreaUnit ==
    (FireCall(last) /\ last.raised = "none")
    => LET a == last.args
           d == fire_wetted_Q(a.A, a.adequate_drainage, a.F, a.air_cooler)
       IN  /\ d.raised = "none"
           /\ last.result.Q = d.Q
           /\ last.result.Q
                = RMul(RMul(Int2Rat(last.result.C), Rat(a.F.mag, FScale)),
                       IF a.air_cooler THEN Int2Rat(ToBase(a.A))
                       ELSE Pow082(ToBase(a.A)))

-----------------------------------------------------------------------------
(* Properties of fire_wetted_Q *)

\* C5: Q = C * F * A^E with C = 21000 with adequate drainage and 34500
\* without, E = 1.0 for an air cooler and 0.82 otherwise, whatever the other
\* flag, A and F are; the C returned is the one in Q; for an air cooler
\* Q = C * F * A (500 ft2, no adequate drainage, F = 1: 17 250 000 BTU/hr).
C5_HeatDuty ==
    (last.op = "fire_wetted_Q" /\ last.raised = "none")
    => LET area == last.A.mag * Factor(last.A.unit)
           F == Rat(last.F.mag, FScale)
       IN  /\ last.C = IF last.adequate_drainage THEN 21000 ELSE 34500
           /\ last.Q = RMul(RMul(Int2Rat(last.C), F),
                            IF last.air_cooler THEN Int2Rat(area)
                            ELSE Pow082(area))
           /\ (/\ last.A = Q_(500, "ft2") /\ ~last.adequate_drainage
               /\ last.F = Q_(FScale, "") /\ last.air_cooler)
              => last.Q = Int2Rat(17250000)

C5_Witness ==
    /\ last.op = "fire_wetted_Q" /\ last.raised = "none"
    /\ last.A = Q_(500, "ft2") /\ ~last.adequate_drainage
    /\ last.F = Q_(FScale, "") /\ last.air_cooler
    /\ last.Q = Int2Rat(17250000) /\ last.C = 34500

\* C13: fire_wetted_Q returns (Q, C) only for an A that is an area and an F
\* that is a dimensionless quantity; with the other argument in order, a bare
\* number for A or F raises ValueError and a quantity of another dimension
\* for A or F raises DimensionalityError; whenever either is out of order one
\* of the two is raised and no duty is returned.
C13_DutyOnlyForQuantities ==
    (last.op = "fire_wetted_Q")
    => LET okA == IsQuantity(last.A) /\ Check(last.A, "[area]")
           okF == IsQuantity(last.F) /\ Check(last.F, "[]")
       IN  /\ last.raised = "none" <=> (okA /\ okF)
           /\ (~IsQuantity(last.A) /\ okF) => last.raised = "ValueError"
           /\ (~IsQuantity(last.F) /\ okA) => last.raised = "ValueError"
           /\ (IsQuantity(last.A) /\ ~okA /\ okF)
                => last.raised = "DimensionalityError"
           /\ (IsQuantity(last.F) /\ ~okF /\ okA)
                => last.raised = "DimensionalityError"
           /\ ~(okA /\ okF)
                => /\ last.raised \in {"ValueError", "DimensionalityError"}
                   /\ last.Q = NaNRat /\ last.C = 0

\* a bare factor F with an area in order
C13_Witness ==
    /\ last.op = "fire_wetted_Q"
    /\ last.A = Q_(500, "yd2") /\ last.F = Q_(FScale, "bare")
    /\ last.raised = "ValueError" /\ last.Q = NaNRat

-----------------------------------------------------------------------------
(* Properties of darcy_dp *)

DarcyCall(l) == l.op = "darcy_dp"

\* f, L, D and rho carry their dimensions
DarcyWellTyped(l) ==
    /\ l.f.dim = Dimensionless /\ l.L.dim = Length
    /\ l.D.dim = Length /\ l.rho.dim = MassDensity

\* C6 (as claimed): with f, L, D and rho in order, a pressure drop is returned
\* only for exactly one specifier (and then always, for a nonzero diameter and
\* density), no specifier fails with the underspecified message and two or
\* three fail with the overspecified message, whatever the other values.
C6_ExactlyOneOrFixedMessage ==
    (DarcyCall(last) /\ DarcyWellTyped(last))
    => LET n == NumFlowSpecs(last.v, last.Q, last.m)
       IN  /\ last.raised = "none" => n = 1
           /\ (n = 1 /\ ~PQIsZero(last.D) /\ ~PQIsZero(last.rho))
                 => last.raised = "none"
           /\ n = 0 => last.raised = UnderspecifiedMsg
           /\ n > 1 => last.raised = OverspecifiedMsg

\* a call with a velocity alone, every argument of its dimension
VelocityMode(l) ==
    /\ DarcyCall(l) /\ DarcyWellTyped(l)
    /\ ~l.v.none /\ l.v.dim = Velocity /\ l.Q.none /\ l.m.none

\* the same flow given as a volumetric flow alone and as a mass flow alone
\* leads to what the call with the velocity led to, result or exception
SameByQAndM(l) ==
    LET area == PQ(RMul(Rat(1, 4), RMul(l.D.val, l.D.val)), 1, <<0, 2, 0>>)
        Q == PQMul(l.v, area)
        m == PQMul(l.rho, Q)
        byQ == darcy_dp(l.f, l.L, l.D, l.rho, None, Q, None)
        byM == darcy_dp(l.f, l.L, l.D, l.rho, None, None, m)
    IN  /\ byQ.raised = l.raised /\ byQ.dp = l.dp
        /\ byM.raised = l.raised /\ byM.dp = l.dp

\* C7 (as claimed): for every f, L, D, rho and v the three input modes lead
\* to the same result.
C7_ThreeModesAgreeForEvery ==
    VelocityMode(last) => SameByQAndM(last)

\* C7: for a nonzero diameter and density the three input modes agree: a call
\* with v alone returns f * rho * L * v^2 / (2 * D), a pressure, and so do the
\* calls with Q = v * (pi * D^2 / 4) alone and with
\* m = rho * v * (pi * D^2 / 4) alone.
C7_ThreeModesAgree ==
    (/\ VelocityMode(last)
     /\ ~PQIsZero(last.D) /\ ~PQIsZero(last.rho))
    => LET area == PQ(RMul(Rat(1, 4), RMul(last.D.val, last.D.val)), 1,
                      <<0, 2, 0>>)
           Q == PQMul(last.v, area)
           m == PQMul(last.rho, Q)
           byQ == darcy_dp(last.f, last.L, last.D, last.rho, None, Q, None)
           byM == darcy_dp(last.f, last.L, last.D, last.rho, None, None, m)
       IN  /\ last.raised = "none"
           /\ last.dp.dim = Pressure /\ last.dp.pi = 0
           /\ last.dp.val =
                RDiv(RMul(RMul(RMul(last.f.val, last.rho.val), last.L.val),
                          RMul(last.v.val, last.v.val)),
                     RMul(Int2Rat(2), last.D.val))
           /\ byQ.raised = "none" /\ byQ.dp = last.dp
           /\ byM.raised = "none" /\ byM.dp = last.dp

C7_Witness ==
    /\ DarcyCall(last) /\ DarcyWellTyped(last)
    /\ last.v = PQ(Int2Rat(2), 0, Velocity) /\ last.Q.none /\ last.m.none
    /\ last.D.val = Int2Rat(2) /\ last.rho.val = Int2Rat(2)
    /\ last.raised = "none"

\* C10 (as claimed): a call in which f, L, D, rho or a supplied v, Q or m does
\* not carry its dimension is rejected and yields no result.
C10_EveryInputDimensionChecked ==
    (/\ DarcyCall(last)
     /\ \/ ~DarcyWellTyped(last)
        \/ ~last.v.none /\ last.v.dim # Velocity
        \/ ~last.Q.none /\ last.Q.dim # VolumetricFlow
        \/ ~last.m.none /\ last.m.dim # MassFlow)
    => last.raised # "none"

-----------------------------------------------------------------------------
(* Properties of calculate_velocity *)

VelocityCall(l) == l.op = "calculate_velocity"

\* a quantity of dimension mass / volume
IsDensity(q) == ~q.none /\ ~IsBare(q) /\ q.dim = MassDensity

\* the four outcomes, each by the dimension of flow
VelocityOutcomes(l) ==
    /\ l.flow.dim = Velocity => l.raised = "none" /\ l.v = l.flow
    /\ l.flow.dim = VolumetricFlow
         => /\ l.raised = "none"
            /\ PQMul(l.v, FlowArea(l.D)) = l.flow
    /\ (l.flow.dim = MassFlow /\ IsDensity(l.rho_mass))
         => /\ l.raised = "none"
            /\ PQMul(PQMul(l.v, FlowArea(l.D)), l.rho_mass) = l.flow
    /\ (l.flow.dim = MassFlow /\ ~IsDensity(l.rho_mass))
         => l.raised = "ValueError"
    /\ l.flow.dim \notin {Velocity, VolumetricFlow, MassFlow}
         => l.raised = "ValueError"

\* C15 (as claimed): for every input exactly the outcome of the dimension of
\* flow occurs: a velocity is returned unchanged, a volumetric flow gives
\* flow / (pi * D^2 / 4), a mass flow gives flow / rho_mass / (pi * D^2 / 4)
\* with a mass density and ValueError without, anything else ValueError.
C15_OutcomeByDimensionForEvery ==
    VelocityCall(last) => VelocityOutcomes(last)

\* flow is a quantity, D a length, rho_mass nothing or a quantity, and no
\* conversion has a zero divisor
VelocityInputsInOrder(l) ==
    /\ ~l.flow.none /\ ~IsBare(l.flow)
    /\ ~l.D.none /\ l.D.dim = Length
    /\ ~IsBare(l.rho_mass)
    /\ l.flow.dim \in {VolumetricFlow, MassFlow} => ~PQIsZero(l.D)
    /\ (l.flow.dim = MassFlow /\ IsDensity(l.rho_mass))
         => ~PQIsZero(l.rho_mass)

\* C15: for a flow that is a quantity, a D that is a length (nonzero where it
\* divides) and a rho_mass that is absent or a quantity (nonzero where it
\* divides), exactly the outcome of the dimension of flow occurs.
C15_OutcomeByDimension ==
    (VelocityCall(last) /\ VelocityInputsInOrder(last))
    => VelocityOutcomes(last)

\* a mass flow converted with its density
C15_Witness ==
    /\ VelocityCall(last) /\ VelocityInputsInOrder(last)
    /\ last.flow.dim = MassFlow /\ IsDensity(last.rho_mass)
    /\ last.rho_mass.val = Int2Rat(2) /\ last.D.val = Int2Rat(2)
    /\ last.raised = "none" /\ last.v.dim = Velocity /\ last.v.pi = 0

=============================================================================
